---- MODULE Spec2Model ----
(***************************************************************************)
(* Scroll-driven animation of a box, a torus and a camera.                 *)
(*                                                                         *)
(* The repository holds two builds of the same entry script:               *)
(*   src/unnamed/part_000  (first-match loop with break, idle spin,        *)
(*                          FinalSpin from BOX_INITIAL_ROTATION to 4*PI)   *)
(*   src/src/main.js       (forEach without break, no idle spin,           *)
(*                          FinalSpin from the current rotation to 2*PI)   *)
(* The variable build says which one is loaded; definitions that differ    *)
(* between the two carry the suffix _main for src/src/main.js.             *)
(*                                                                         *)
(* Numbers.  A JavaScript number is modelled as a record                   *)
(*   [k |-> "fin", r |-> <<n,d>>, p |-> <<n,d>>]   the real r + p*PI,      *)
(*   [k |-> "nan" | "pinf" | "ninf", ...]          NaN, +Infinity,         *)
(*                                                 -Infinity.              *)
(* Finite arithmetic is exact (rationals in lowest terms, PI kept          *)
(* symbolic); rounding of IEEE doubles is not modelled.                    *)
(***************************************************************************)
EXTENDS Integers, Sequences, FiniteSets, TLC

\* ------------------------------------------------------------------ bounds
MaxFrames == 4     \* renders after which no further tick is explored
ScrollRange == 10  \* scrollHeight - clientHeight of a scrollable page
OverScroll == 1    \* how far an over-scroll takes scrollTop out of range

\* ------------------------------------------------------- rational numbers
Abs(n) == IF n < 0 THEN 0 - n ELSE n

RECURSIVE GCD(_, _)
GCD(a, b) == IF b = 0 THEN a ELSE GCD(b, a % b)

QN(n, d) ==
  LET g == GCD(Abs(n), Abs(d))
      s == IF d < 0 THEN 0 - 1 ELSE 1
  IN  <<(s * n) \div g, (s * d) \div g>>

Q0 == <<0, 1>>
QI(n) == <<n, 1>>
QAdd(x, y) == QN(x[1] * y[2] + y[1] * x[2], x[2] * y[2])
QNeg(x) == <<0 - x[1], x[2]>>
QMul(x, y) == QN(x[1] * y[1], x[2] * y[2])
QInv(x) == QN(x[2], x[1])
QSign(x) == IF x[1] > 0 THEN 1 ELSE IF x[1] < 0 THEN 0 - 1 ELSE 0
QLess(x, y) == x[1] * y[2] < y[1] * x[2]

\* ------------------------------------------------------ JavaScript numbers
Fin(r, p) == [k |-> "fin", r |-> r, p |-> p]
Num(n) == Fin(QI(n), Q0)
Rat(n, d) == Fin(QN(n, d), Q0)
NaN == [k |-> "nan", r |-> Q0, p |-> Q0]
PInf == [k |-> "pinf", r |-> Q0, p |-> Q0]
NInf == [k |-> "ninf", r |-> Q0, p |-> Q0]
PI == Fin(Q0, QI(1))

IsFinite(v) == v.k = "fin"

\* 333/106 < PI < 355/113 decides the sign of r + p*PI whenever r and p
\* have opposite signs; r + p*PI = 0 only for r = p = 0.
PiLo == <<333, 106>>
PiHi == <<355, 113>>

Sign(v) ==
  IF v.k = "pinf" THEN 1
  ELSE IF v.k = "ninf" THEN 0 - 1
  ELSE IF v.k = "nan" THEN 0
  ELSE IF QSign(v.p) = 0 THEN QSign(v.r)
  ELSE IF QSign(v.r) = 0 \/ QSign(v.r) = QSign(v.p) THEN QSign(v.p)
  ELSE LET ar == <<Abs(v.r[1]), v.r[2]>>
           ap == <<Abs(v.p[1]), v.p[2]>>
       IN  IF QLess(ar, QMul(ap, PiLo)) THEN QSign(v.p)
           ELSE IF QLess(QMul(ap, PiHi), ar) THEN QSign(v.r)
           ELSE QSign(v.p)

InfOf(s) == IF s > 0 THEN PInf ELSE NInf

Neg(v) ==
  IF v.k = "fin" THEN Fin(QNeg(v.r), QNeg(v.p))
  ELSE IF v.k = "pinf" THEN NInf
  ELSE IF v.k = "ninf" THEN PInf
  ELSE NaN

Add(a, b) ==
  IF a.k = "nan" \/ b.k = "nan" THEN NaN
  ELSE IF a.k = "fin" /\ b.k = "fin" THEN Fin(QAdd(a.r, b.r), QAdd(a.p, b.p))
  ELSE IF a.k = "fin" THEN b
  ELSE IF b.k = "fin" THEN a
  ELSE IF a.k = b.k THEN a
  ELSE NaN

Sub(a, b) == Add(a, Neg(b))

\* In every product of the program one factor is free of PI (an
\* interpolation coefficient); a is that factor when both are finite.
Mul(a, b) ==
  IF a.k = "nan" \/ b.k = "nan" THEN NaN
  ELSE IF a.k = "fin" /\ b.k = "fin" THEN Fin(QMul(a.r, b.r), QMul(a.r, b.p))
  ELSE IF Sign(a) = 0 \/ Sign(b) = 0 THEN NaN
  ELSE InfOf(Sign(a) * Sign(b))

\* b is free of PI (a difference of scroll metrics or of range bounds).
Div(a, b) ==
  IF a.k = "nan" \/ b.k = "nan" THEN NaN
  ELSE IF b.k # "fin" THEN (IF a.k = "fin" THEN Num(0) ELSE NaN)
  ELSE IF QSign(b.r) = 0 THEN (IF Sign(a) = 0 THEN NaN ELSE InfOf(Sign(a)))
  ELSE IF a.k = "fin" THEN Fin(QMul(a.r, QInv(b.r)), QMul(a.p, QInv(b.r)))
  ELSE InfOf(Sign(a) * QSign(b.r))

\* a >= b and a <= b of JavaScript: false as soon as one side is NaN.
Ge(a, b) == a.k # "nan" /\ b.k # "nan" /\ (a = b \/ Sign(Sub(a, b)) > 0)
Le(a, b) == Ge(b, a)
Gt(a, b) == a.k # "nan" /\ b.k # "nan" /\ a # b /\ Sign(Sub(a, b)) > 0

\* ------------------------------------------------------ program constants
BOX_INITIAL_POSITION == <<Num(0), Rat(1, 2), Num(0 - 15)>>
BOX_INITIAL_ROTATION == <<Num(1), Num(1), Num(0)>>
TORUS_INITIAL_POSITION == <<Num(0), Num(1), Num(10)>>
CAMERA_DEFAULT_POSITION == <<Num(0), Num(1), Num(10)>>

ANIMATION_RANGES ==
  [INTRO |-> [start |-> 0, end |-> 40],
   ROTATION |-> [start |-> 40, end |-> 60],
   CAMERA_MOVE |-> [start |-> 60, end |-> 80],
   FINAL_SPIN |-> [start |-> 80, end |-> 100]]

\* box.rotation.x += 0.01
IdleStep == Rat(1, 100)

\* ------------------------------------------------------------ interpolator
\* lerp with its two end points exchanged
lerp_swapped(start, end, alpha) ==
  Add(Mul(alpha, start), Mul(Sub(Num(1), alpha), end))

\* (1 - alpha) * start + alpha * end
lerp(start, end, alpha) ==
  Add(Mul(Sub(Num(1), alpha), start), Mul(alpha, end))

\* (scrollPercent - start) / (end - start); sp is the global scrollPercent
scalePercent(sp, start, end) == Div(Sub(sp, Num(start)), Num(end - start))

\* ------------------------------------------------------------- scene state
\* camDir stands for the camera's orientation.  Object3D.lookAt(target) of a
\* camera builds its rotation from the vector camera.position - target and
\* the fixed up vector, so the orientation is a function of that vector's
\* direction: camDir is the direction as a primitive integer vector.
LCM3(a, b, c) ==
  LET ab == (a * b) \div GCD(a, b) IN (ab * c) \div GCD(ab, c)

LookDir(eye, target) ==
  IF \E i \in 1..3 : ~IsFinite(eye[i]) \/ ~IsFinite(target[i])
  THEN <<NaN, NaN, NaN>>
  ELSE LET d == [i \in 1..3 |-> QAdd(eye[i].r, QNeg(target[i].r))]
           l == LCM3(d[1][2], d[2][2], d[3][2])
           n == [i \in 1..3 |-> d[i][1] * (l \div d[i][2])]
           g == GCD(GCD(Abs(n[1]), Abs(n[2])), Abs(n[3]))
       IN  IF g = 0 THEN <<Num(0), Num(0), Num(1)>>
           ELSE <<Num(n[1] \div g), Num(n[2] \div g), Num(n[3] \div g)>>

\* The scene right after the objects are constructed: the camera sits at
\* the origin with the identity rotation (it looks down -z).
InitialScene ==
  [boxPos |-> BOX_INITIAL_POSITION,
   boxRot |-> BOX_INITIAL_ROTATION,
   torusPos |-> TORUS_INITIAL_POSITION,
   camPos |-> <<Num(0), Num(0), Num(0)>>,
   camDir |-> <<Num(0), Num(0), Num(1)>>]

\* camera.lookAt(box.position)
lookAtBox(s) == [s EXCEPT !.camDir = LookDir(s.camPos, s.boxPos)]

\* camera.lookAt(box.position); camera.position.set(default)
setCameraToDefault(s) ==
  [lookAtBox(s) EXCEPT !.camPos = CAMERA_DEFAULT_POSITION]

\* ---------------------------------------------------------------- timeline
Intro(s, sp) ==
  LET a == scalePercent(sp, ANIMATION_RANGES.INTRO.start,
                        ANIMATION_RANGES.INTRO.end)
  IN  [setCameraToDefault(s) EXCEPT
         !.boxPos[3] = lerp(Num(0 - 15), Num(2), a),
         !.torusPos[3] = lerp(Num(10), Num(0 - 20), a)]

Rotation(s, sp) ==
  LET a == scalePercent(sp, ANIMATION_RANGES.ROTATION.start,
                        ANIMATION_RANGES.ROTATION.end)
  IN  [setCameraToDefault(s) EXCEPT !.boxRot[3] = lerp(Num(1), PI, a)]

CameraMove(s, sp) ==
  LET a == scalePercent(sp, ANIMATION_RANGES.CAMERA_MOVE.start,
                        ANIMATION_RANGES.CAMERA_MOVE.end)
  IN  [lookAtBox(s) EXCEPT
         !.camPos = <<lerp(Num(0), Num(0 - 15), a),
                      lerp(Num(1), Num(0 - 15), a),
                      lerp(Num(10), Num(25), a)>>]

\* src/unnamed/part_000: from BOX_INITIAL_ROTATION towards 4*PI
FinalSpin(s, sp) ==
  LET progress == scalePercent(sp, ANIMATION_RANGES.FINAL_SPIN.start,
                               ANIMATION_RANGES.FINAL_SPIN.end)
      target == Fin(Q0, QI(4))
  IN  [s EXCEPT
         !.boxRot[1] = lerp(BOX_INITIAL_ROTATION[1], target, progress),
         !.boxRot[2] = lerp(BOX_INITIAL_ROTATION[2], target, progress)]

\* src/src/main.js: from the current box rotation towards 2*PI
FinalSpin_main(s, sp) ==
  LET progress == scalePercent(sp, ANIMATION_RANGES.FINAL_SPIN.start,
                               ANIMATION_RANGES.FINAL_SPIN.end)
      targetRotation == Fin(Q0, QI(2))
  IN  [s EXCEPT
         !.boxRot[1] = lerp(s.boxRot[1], targetRotation, progress),
         !.boxRot[2] = lerp(s.boxRot[2], targetRotation, progress)]

\* the four entries in the order they are pushed
animationScripts ==
  <<[start |-> ANIMATION_RANGES.INTRO.start,
     end |-> ANIMATION_RANGES.INTRO.end, name |-> "Intro"],
    [start |-> ANIMATION_RANGES.ROTATION.start,
     end |-> ANIMATION_RANGES.ROTATION.end, name |-> "Rotation"],
    [start |-> ANIMATION_RANGES.CAMERA_MOVE.start,
     end |-> ANIMATION_RANGES.CAMERA_MOVE.end, name |-> "CameraMove"],
    [start |-> ANIMATION_RANGES.FINAL_SPIN.start,
     end |-> ANIMATION_RANGES.FINAL_SPIN.end, name |-> "FinalSpin"]>>

\* animation.function() of entry i, in the given build
runEntry(b, i, s, sp) ==
  CASE i = 1 -> Intro(s, sp)
    [] i = 2 -> Rotation(s, sp)
    [] i = 3 -> CameraMove(s, sp)
    [] i = 4 -> IF b = "main" THEN FinalSpin_main(s, sp) ELSE FinalSpin(s, sp)

\* range test that forgets the lower bound
isInRange_noLower(sp, animation) == Le(sp, Num(animation.end))

\* range test written as !(p < start) && !(p > end): true for NaN
isInRange_nanTrue(sp, animation) ==
  ~Gt(Num(animation.start), sp) /\ ~Gt(sp, Num(animation.end))

\* scrollPercent >= animation.start && scrollPercent <= animation.end
isInRange(sp, animation) ==
  Ge(sp, Num(animation.start)) /\ Le(sp, Num(animation.end))

\* ---------------------------------------------------------------- scheduler
\* A scheduler run yields the new scene, the names of the entries whose
\* function it executed (in order) and the number of idle-spin steps added.

\* src/unnamed/part_000: for ... of with break after the first match
RECURSIVE scanFirst(_, _, _)
scanFirst(i, s, sp) ==
  IF i > Len(animationScripts) THEN [scene |-> s, fired |-> <<>>]
  ELSE IF isInRange(sp, animationScripts[i])
       THEN [scene |-> runEntry("part_000", i, s, sp),
             fired |-> <<animationScripts[i].name>>]
       ELSE scanFirst(i + 1, s, sp)

\* if (scrollPercent >= 100) { box.rotation.x += 0.01; box.rotation.y += 0.01 }
idleSpin(s, sp) ==
  IF Ge(sp, Num(100))
  THEN [scene |-> [s EXCEPT !.boxRot[1] = Add(@, IdleStep),
                            !.boxRot[2] = Add(@, IdleStep)],
        idle |-> 1]
  ELSE [scene |-> s, idle |-> 0]

playScrollAnimation(s, sp) ==
  LET loop == scanFirst(1, s, sp)
      spin == idleSpin(loop.scene, sp)
  IN  [scene |-> spin.scene, fired |-> loop.fired, idle |-> spin.idle]

\* src/src/main.js: forEach over every entry, no break, no idle spin
RECURSIVE scanAll_main(_, _, _, _)
scanAll_main(i, s, sp, fired) ==
  IF i > Len(animationScripts) THEN [scene |-> s, fired |-> fired]
  ELSE IF isInRange(sp, animationScripts[i])
       THEN scanAll_main(i + 1, runEntry("main", i, s, sp), sp,
                         Append(fired, animationScripts[i].name))
       ELSE scanAll_main(i + 1, s, sp, fired)

playScrollAnimation_main(s, sp) ==
  LET loop == scanAll_main(1, s, sp, <<>>)
  IN  [scene |-> loop.scene, fired |-> loop.fired, idle |-> 0]

\* ---------------------------------------------------------- event handlers
\* (scrollTop / (scrollHeight - clientHeight)) * 100
handleScroll(scrollTop, scrollHeight, clientHeight) ==
  Mul(Div(Num(scrollTop), Num(scrollHeight - clientHeight)), Num(100))

\* document.documentElement metrics a scroll event may find: a scrollable
\* page at any offset or over-scrolled past either end, and a page whose
\* content fits the viewport (scrollHeight = clientHeight), at rest or
\* over-scrolled.
ViewportHeight == 5
ScrollMetrics ==
  {[scrollTop |-> t, scrollHeight |-> ViewportHeight + ScrollRange,
    clientHeight |-> ViewportHeight] :
      t \in (0..ScrollRange) \cup {0 - OverScroll, ScrollRange + OverScroll}}
  \cup
  {[scrollTop |-> t, scrollHeight |-> ViewportHeight,
    clientHeight |-> ViewportHeight] : t \in {0 - OverScroll, 0, OverScroll}}

\* window.innerWidth / window.innerHeight / window.devicePixelRatio values
Widths == {4, 8}
Heights == {3}
DevicePixelRatios == {2}

\* sizes.width = innerWidth; sizes.height = innerHeight;
\* camera.aspect = width / height; renderer.setSize; renderer.setPixelRatio
handleResize(innerWidth, innerHeight, devicePixelRatio) ==
  [sizes |-> [width |-> innerWidth, height |-> innerHeight],
   aspect |-> QN(innerWidth, innerHeight),
   rendererSize |-> [width |-> innerWidth, height |-> innerHeight,
                     pixelRatio |-> devicePixelRatio]]

\* cleanup that removes the resize listener only
cleanupListeners_keepScroll(ls) == ls \ {"resize"}

\* window.removeEventListener("scroll", ...); ("resize", ...)
cleanupListeners(ls) == (ls \ {"scroll"}) \ {"resize"}

\* ------------------------------------------------------------------- state
VARIABLES
  build,          \* "part_000" or "main": which entry script is loaded
  pc,             \* position of the top-level script: "boot" before the
                  \* initial render, "rendered" after it, "running" once
                  \* the script has returned to the event loop
  scrollPercent,  \* the global progress value
  sizes,          \* sizes.width, sizes.height
  aspect,         \* camera.aspect
  rendererSize,   \* what renderer.setSize / setPixelRatio last received
  scene,          \* transforms of box, torus and camera
  listeners,      \* event types with a registered handler
  rafPending,     \* a requestAnimationFrame callback is queued
  disposed,       \* cleanup() has run
  frames,         \* number of renderer.render calls so far
  rendered,       \* the scene read by the last renderer.render
  renderEvals,    \* scheduler runs between the last two renders
  fired,          \* entries executed by the last scheduler run
  idle,           \* idle-spin steps added by the last scheduler run
  tickProgress,   \* the scrollPercent the last scheduler run read
  lateEvents,     \* event types dispatched since cleanup()
  atCleanup       \* scrollPercent, sizes, aspect when cleanup() returned

vars == <<build, pc, scrollPercent, sizes, aspect, rendererSize, scene,
          listeners, rafPending, disposed, frames, rendered, renderEvals,
          fired, idle, tickProgress, lateEvents, atCleanup>>

\* ---------------------------------------------------------------- the loop
\* A frame record carries what one run of the loop body reads and writes.
Frame ==
  [scene |-> scene, raf |-> FALSE, evals |-> 0, frames |-> frames,
   rendered |-> rendered, renderEvals |-> renderEvals,
   fired |-> fired, idle |-> idle, progress |-> tickProgress]

\* window.requestAnimationFrame(tick)
requestAnimationFrame(f) == [f EXCEPT !.raf = TRUE]

\* playScrollAnimation() of the loaded build
play(b, f, sp) ==
  LET r == IF b = "main" THEN playScrollAnimation_main(f.scene, sp)
           ELSE playScrollAnimation(f.scene, sp)
  IN  [f EXCEPT !.scene = r.scene, !.fired = r.fired, !.idle = r.idle,
                !.progress = sp, !.evals = @ + 1]

\* renderer.render(scene, camera)
render(f) ==
  [f EXCEPT !.rendered = f.scene, !.renderEvals = f.evals, !.evals = 0,
            !.frames = @ + 1]

\* loop body that renders before it evaluates the scheduler
tick_renderFirst(b, f, sp) == play(b, render(requestAnimationFrame(f)), sp)

\* requestAnimationFrame(tick); playScrollAnimation(); renderer.render(...)
tick(b, f, sp) == render(play(b, requestAnimationFrame(f), sp))

\* setCameraToDefault(); renderer.render(scene, camera);
initialRender(f) == render([f EXCEPT !.scene = setCameraToDefault(f.scene)])

StoreFrame(f) ==
  /\ scene' = f.scene
  /\ rafPending' = f.raf
  /\ frames' = f.frames
  /\ rendered' = f.rendered
  /\ renderEvals' = f.renderEvals
  /\ fired' = f.fired
  /\ idle' = f.idle
  /\ tickProgress' = f.progress

\* ------------------------------------------------------------------ actions
\* the state when the top-level script of build b reaches its initial render
InitOf(b) ==
  /\ build = b
  /\ pc = "boot"
  /\ scrollPercent = Num(0)
  /\ \E w \in Widths, h \in Heights, r \in DevicePixelRatios :
       /\ sizes = [width |-> w, height |-> h]
       /\ aspect = QN(w, h)
       /\ rendererSize = [width |-> w, height |-> h, pixelRatio |-> r]
  /\ scene = InitialScene
  /\ listeners = {"scroll", "resize"}
  /\ rafPending = FALSE
  /\ disposed = FALSE
  /\ frames = 0
  /\ rendered = InitialScene
  /\ renderEvals = 0
  /\ fired = <<>>
  /\ idle = 0
  /\ tickProgress = scrollPercent
  /\ lateEvents = {}
  /\ atCleanup = [scrollPercent |-> scrollPercent, sizes |-> sizes,
                  aspect |-> aspect]

\* src/unnamed/part_000 is loaded
Init == InitOf("part_000")

\* src/src/main.js is loaded
Init_main == InitOf("main")

\* the initial render of the top-level script
InitialRender ==
  /\ pc = "boot"
  /\ pc' = "rendered"
  /\ StoreFrame(initialRender(Frame))
  /\ UNCHANGED <<build, scrollPercent, sizes, aspect, rendererSize,
                 listeners, disposed, lateEvents, atCleanup>>

\* tick(): called once by the top-level script, then by each queued
\* requestAnimationFrame callback
Tick ==
  /\ pc = "rendered" \/ (pc = "running" /\ rafPending)
  /\ frames < MaxFrames
  /\ pc' = "running"
  /\ StoreFrame(tick(build, Frame, scrollPercent))
  /\ UNCHANGED <<build, scrollPercent, sizes, aspect, rendererSize,
                 listeners, disposed, lateEvents, atCleanup>>

\* a scroll event: its handler runs if it is still registered
Scroll ==
  /\ pc = "running"
  /\ \E m \in ScrollMetrics :
       scrollPercent' =
         IF "scroll" \in listeners
         THEN handleScroll(m.scrollTop, m.scrollHeight, m.clientHeight)
         ELSE scrollPercent
  /\ lateEvents' = IF disposed THEN lateEvents \cup {"scroll"} ELSE lateEvents
  /\ UNCHANGED <<build, pc, sizes, aspect, rendererSize, scene, listeners,
                 rafPending, disposed, frames, rendered, renderEvals, fired,
                 idle, tickProgress, atCleanup>>

\* a resize event: its handler runs if it is still registered
Resize ==
  /\ pc = "running"
  /\ \E w \in Widths, h \in Heights, r \in DevicePixelRatios :
       LET n == handleResize(w, h, r)
       IN  IF "resize" \in listeners
           THEN /\ sizes' = n.sizes
                /\ aspect' = n.aspect
                /\ rendererSize' = n.rendererSize
           ELSE UNCHANGED <<sizes, aspect, rendererSize>>
  /\ lateEvents' = IF disposed THEN lateEvents \cup {"resize"} ELSE lateEvents
  /\ UNCHANGED <<build, pc, scrollPercent, scene, listeners, rafPending,
                 disposed, frames, rendered, renderEvals, fired, idle,
                 tickProgress, atCleanup>>

\* cleanup(): removes both listeners and disposes geometries, materials
\* and the renderer; it does not touch the queued animation frame
Cleanup ==
  /\ pc = "running"
  /\ listeners' = cleanupListeners(listeners)
  /\ disposed' = TRUE
  /\ atCleanup' = [scrollPercent |-> scrollPercent, sizes |-> sizes,
                   aspect |-> aspect]
  /\ UNCHANGED <<build, pc, scrollPercent, sizes, aspect, rendererSize,
                 scene, rafPending, frames, rendered, renderEvals, fired,
                 idle, tickProgress, lateEvents>>

Next == InitialRender \/ Tick \/ Scroll \/ Resize \/ Cleanup

Spec == Init /\ [][Next]_vars

Spec_main == Init_main /\ [][Next]_vars

\* ================================================================== claims
\* a step that runs the loop body once (Tick)
TickStep == frames' = frames + 1 /\ pc # "boot"
\* at least one scheduler run has happened
Ticked == frames >= 2

HasNaN(s) ==
  \E i \in 1..3 : \/ s.boxPos[i].k = "nan" \/ s.boxRot[i].k = "nan"
                  \/ s.torusPos[i].k = "nan" \/ s.camPos[i].k = "nan"
                  \/ s.camDir[i].k = "nan"

\* the earliest entry, in array order, whose closed range holds p in [0,100]
EarliestEntry(p) ==
  IF Le(p, Num(40)) THEN "Intro"
  ELSE IF Le(p, Num(60)) THEN "Rotation"
  ELSE IF Le(p, Num(80)) THEN "CameraMove"
  ELSE "FinalSpin"

\* C1: a scheduler run executes at most one entry, and for progress in
\* [0,100] it is the earliest entry whose closed range contains progress
\* (at 40, 60 and 80 only the earlier entry runs).
C1_AtMostOneEarliestEntry ==
  Ticked =>
    /\ Len(fired) <= 1
    /\ (Ge(tickProgress, Num(0)) /\ Le(tickProgress, Num(100))
          => fired = <<EarliestEntry(tickProgress)>>)

\* C2: while progress stays at 100 every tick runs FinalSpin and the idle
\* spin, and box rotation x and y after the tick are strictly greater than
\* after the previous tick.
C2_SpinGrowsAt100 ==
  [][(TickStep /\ Ticked /\ tickProgress = Num(100)
        /\ scrollPercent = Num(100))
      => /\ fired' = <<"FinalSpin">>
         /\ idle' = 1
         /\ Gt(scene'.boxRot[1], scene.boxRot[1])
         /\ Gt(scene'.boxRot[2], scene.boxRot[2])]_vars

\* C3: a tick with progress >= 100 adds the idle step to box rotation x
\* and y exactly once, matched entry or not; a tick with progress < 100
\* adds none; each tick with progress > 100 leaves x and y exactly one
\* step above their values before it.
C3_IdleStepOncePerTick ==
  [][TickStep =>
      /\ idle' = (IF Ge(scrollPercent, Num(100)) THEN 1 ELSE 0)
      /\ (Gt(scrollPercent, Num(100)) =>
            /\ scene'.boxRot[1] = Add(scene.boxRot[1], IdleStep)
            /\ scene'.boxRot[2] = Add(scene.boxRot[2], IdleStep))
      /\ (scrollPercent = Num(100) =>
            /\ scene'.boxRot[1] = Add(Fin(Q0, QI(4)), IdleStep)
            /\ scene'.boxRot[2] = Add(Fin(Q0, QI(4)), IdleStep))]_vars

\* C4: each entry's function is idempotent for a fixed progress: applied
\* twice from any reachable scene it leaves what one application leaves;
\* FinalSpin's box rotation x, y depend on progress and the initial
\* rotation only.
C4_EntriesIdempotent ==
  pc = "running" =>
    \A i \in 1..4 :
      isInRange(scrollPercent, animationScripts[i]) =>
        LET once == runEntry(build, i, scene, scrollPercent)
        IN  /\ runEntry(build, i, once, scrollPercent) = once
            /\ (i = 4 =>
                  LET fresh == FinalSpin(InitialScene, scrollPercent)
                  IN  /\ once.boxRot[1] = fresh.boxRot[1]
                      /\ once.boxRot[2] = fresh.boxRot[2])

\* C5: after cleanup() no scroll event changes scrollPercent and no resize
\* event changes sizes.width, sizes.height or the camera aspect: they keep
\* the values they had when cleanup() returned.
C5_FrozenAfterCleanup ==
  disposed =>
    /\ scrollPercent = atCleanup.scrollPercent
    /\ sizes = atCleanup.sizes
    /\ aspect = atCleanup.aspect

C5_Witness ==
  /\ disposed
  /\ {"scroll", "resize"} \subseteq lateEvents
  /\ scrollPercent # Num(0)

\* C6: a tick that runs after cleanup() registers no new
\* requestAnimationFrame callback.
C6_NoRescheduleAfterCleanup ==
  [][(disposed /\ TickStep) => ~rafPending']_vars

\* C7 (as stated): every rendered frame, the first one included, is
\* preceded by exactly one scheduler run since the previous render, and
\* the render reads the scene that run produced.
C7_EveryRenderAfterOneRun ==
  frames >= 1 => renderEvals = 1 /\ rendered = scene

\* C7 (amended): every frame rendered by tick is preceded by exactly one
\* scheduler run since the previous render and reads the scene that run
\* left; the initial render at startup is preceded by none.
C7_TickRenderAfterOneRun ==
  /\ (frames >= 2 => renderEvals = 1 /\ rendered = scene)
  /\ (frames = 1 => renderEvals = 0)

C7_Witness ==
  /\ frames >= 3
  /\ tickProgress = Num(70)
  /\ rendered.camPos # CAMERA_DEFAULT_POSITION

\* C8: Intro at progress 0 sets box z to -15 and torus z to 10, at
\* progress 40 box z to 2 and torus z to -20, and for p in [0,40]
\* box z = -15 + 17p/40 and torus z = 10 - 30p/40, whatever they were.
C8_IntroEndpoints ==
  (Ticked /\ fired # <<>> /\ fired[1] = "Intro") =>
    LET p == tickProgress.r
    IN  /\ scene.boxPos[3] = Rat(17 * p[1] - 600 * p[2], 40 * p[2])
        /\ scene.torusPos[3] = Rat(400 * p[2] - 30 * p[1], 40 * p[2])
        /\ (tickProgress = Num(0) =>
              scene.boxPos[3] = Num(0 - 15) /\ scene.torusPos[3] = Num(10))
        /\ (tickProgress = Num(40) =>
              scene.boxPos[3] = Num(2) /\ scene.torusPos[3] = Num(0 - 20))

C8_Witness ==
  /\ frames >= 4
  /\ tickProgress = Num(40)
  /\ fired # <<>> /\ fired[1] = "Intro"
  /\ scene.boxPos[3] = Num(2)
  /\ scene.boxRot # BOX_INITIAL_ROTATION

\* C9: a tick with negative progress executes no entry and leaves every
\* scene transform unchanged.
C9_NegativeProgressNoOp ==
  [][(TickStep /\ Sign(scrollPercent) < 0)
      => scene' = scene /\ fired' = <<>> /\ idle' = 0]_vars

C9_Witness ==
  /\ frames >= 4
  /\ Sign(tickProgress) < 0
  /\ fired = <<>>
  /\ scene.boxPos # BOX_INITIAL_POSITION

\* C10 (as stated): after a scroll event with scrollHeight = clientHeight
\* the non-finite progress reaches the transforms on the following ticks:
\* some transform component is NaN.
C10_NonFiniteProgressGivesNaN ==
  (Ticked /\ ~IsFinite(tickProgress)) => HasNaN(scene)

\* C10 (amended): handleScroll with scrollHeight = clientHeight stores a
\* non-finite progress, a tick with it executes no entry, and no
\* transform component ever becomes NaN.
C10_NonFiniteProgressFiresNothing ==
  /\ \A m \in ScrollMetrics :
       m.scrollHeight = m.clientHeight =>
         ~IsFinite(handleScroll(m.scrollTop, m.scrollHeight, m.clientHeight))
  /\ ~HasNaN(scene)
  /\ ((Ticked /\ ~IsFinite(tickProgress)) => fired = <<>>)

C10_Witness ==
  /\ frames >= 3
  /\ tickProgress = NaN
  /\ scrollPercent = NaN
  /\ "scroll" \in listeners

====
